---- MODULE Spec2Model ----
(***************************************************************************)
(* A model of src/Encryption/encryption.py: the cipher family (Caesar,     *)
(* Multiplication, Affine, Unbreakable, RSA), the session that test() runs *)
(* with them (generate_key, Sender.operate_cipher, Receiver.operate_cipher,*)
(* verify) and the Hacker's brute-force search.                            *)
(*                                                                         *)
(* A string is modelled as the sequence of the ordinals of its characters, *)
(* so ord() and chr() are the passage between a character and its number.  *)
(* The helpers imported from crypto_utils (extended_gcd, modular_inverse,  *)
(* generate_random_prime, blocks_from_text, text_from_blocks) are not part *)
(* of the sources at hand and are modelled from their specification.       *)
(***************************************************************************)
EXTENDS Integers, Sequences, FiniteSets, TLC

VARIABLES
    cipher,     \* test(): the cipher chosen, a key of cipher_map
    pc,         \* test(): the statement the session has reached
    draw,       \* Multiplication.generate_key: its local variable key
    key,        \* test(): the key generate_key returned
    msg,        \* test(): the message typed
    encrypted,  \* test(): what sender.operate_cipher returned
    decrypted,  \* test(): what receiver.operate_cipher returned
    verified,   \* test(): what cipher.verify returned
    rsa_p,      \* RSA.generate_key: p
    rsa_q,      \* RSA.generate_key: q
    rsa_n,      \* RSA.generate_key: n
    rsa_phi,    \* RSA.generate_key: phi
    rsa_e,      \* RSA.generate_key: e
    rsa_d,      \* RSA.generate_key: d
    hacker_cipher,   \* Hacker.cipher, a key of cipher_map
    encoded_msg,     \* Hacker.encoded_msg
    words,           \* Hacker.words
    most_likely_msg, \* Hacker.most_likely_msg
    max_count,       \* Hacker.max_count
    hacker_key,      \* Hacker.key
    hacker_pc,       \* Hacker.brute_force: running or returned
    bf_key,          \* Hacker.brute_force: key of the loop of line 360
    c_key,           \* Hacker.brute_force: c_key
    m_key,           \* Hacker.brute_force: m_key
    checked,         \* the keys check_key was called with, in order
    returned,        \* what Hacker.brute_force returned
    person_role,     \* a Person: "Sender" or "Receiver"
    person_cipher,   \* Person.cipher, a key of cipher_map
    person_key,      \* Person.key: <<>> is None, <<k>> is the key k
    person_op,       \* the method of the Person called last
    person_arg,      \* the argument of that call
    person_out,      \* what that call returned
    infix,           \* the expression given: its tokens and its value
    notation,        \* Calculator.evaluate_notation: notation
    op_stack,        \* Calculator.evaluate_notation: op_stack
    output_queue,    \* Calculator.output_queue
    stack,           \* Calculator.evaluate_rpn: stack
    calc_pc,         \* the loop the Calculator is in
    result           \* what Calculator.evaluate_rpn returned

\* the local variables of RSA.generate_key
rsa_vars == <<rsa_p, rsa_q, rsa_n, rsa_phi, rsa_e, rsa_d>>

\* the session of test()
session_vars ==
    <<cipher, pc, draw, key, msg, encrypted, decrypted, verified>>

\* the Hacker and its brute_force
hacker_vars ==
    <<hacker_cipher, encoded_msg, words, most_likely_msg, max_count,
      hacker_key, hacker_pc, bf_key, c_key, m_key, checked, returned>>

\* a Sender or a Receiver
person_vars ==
    <<person_role, person_cipher, person_key, person_op, person_arg,
      person_out>>

\* the Calculator
calc_vars ==
    <<infix, notation, op_stack, output_queue, stack, calc_pc, result>>

vars == <<session_vars, rsa_vars, hacker_vars, person_vars, calc_vars>>

(***************************************************************************)
(* Program constants                                                       *)
(***************************************************************************)
alphabet_size == 95

alphabet_start == 32

alphabet_end == 126

bits == 8

block_length == 2

(***************************************************************************)
(* Bounds of the model                                                     *)
(***************************************************************************)
\* longest message of a cipher session
MaxLen == 2

\* longest keyword typed for the Unbreakable cipher
MaxKeyLen == 2

\* longest ciphertext handed to a Hacker of a Caesar or Multiplication cipher
MaxHackLen == 3

\* longest ciphertext handed to a Hacker of an Affine cipher
MaxAffineHackLen == 1

\* most blocks of a message of an RSA session
MaxBlocks == 1

\* the exponents drawn by RSA.generate_key are the MaxEDraw lowest and the
\* MaxEDraw highest of 3..phi-1
MaxEDraw == 2

(***************************************************************************)
(* Inputs                                                                  *)
(***************************************************************************)
\* all sequences over S of length at most n
BoundedSeq(S, n) == UNION {[1..k -> S] : k \in 0..n}

\* the printable alphabet, ordinals 32..126
Alphabet == alphabet_start..alphabet_end

\* characters the messages of a session are written with: both ends of the
\* alphabet, an upper-case and a lower-case letter
Chars == {32, 65, 97, 126}

\* the message of the concrete scenario, "abc"
ScenarioMsgs == {<<97, 98, 99>>}

\* every one-character message
SingleCharMsgs == {<<c>> : c \in Alphabet}

\* ordinals of the characters a keyword is typed with; a keyword is any text,
\* so its ordinals may lie outside the alphabet (200) or be a multiple of 95
KeyChars == {32, 95, 126, 200}

\* characters of the messages of an Affine session (it has 72 * 96 keys)
AffineChars == {32, 126}

\* characters of the ciphertexts handed to a Hacker
HackChars == {32, 98, 99}

AffineHackChars == {98, 99}

\* the word lists read from english_words.txt: the text after the last line
\* break gives the empty word
Corpora ==
    { {<<>>},
      {<<>>, <<97>>, <<97, 98>>},
      {<<>>, <<97>>, <<98>>, <<99>>} }

\* characters of the messages of an RSA session
RSAChars == {32, 97, 126}

(***************************************************************************)
(* crypto_utils                                                            *)
(***************************************************************************)
RECURSIVE extended_gcd(_, _)
\* (g, x, y) with g = gcd(a, b) = a*x + b*y, for a, b >= 0
extended_gcd(a, b) ==
    IF b = 0 THEN <<a, 1, 0>>
    ELSE LET r == extended_gcd(b, a % b)
         IN  <<r[1], r[3], r[2] - (a \div b) * r[3]>>

\* the outcome of modular_inverse when a has no inverse modulo m
NoInverseError == -1

\* x in [0, m) with a*x = 1 (mod m); fails when gcd(a, m) # 1
modular_inverse(a, m) ==
    LET r == extended_gcd(a, m)
    IN  IF r[1] # 1 THEN NoInverseError ELSE r[2] % m

\* x is a prime number
IsPrime(x) == x > 1 /\ \A f \in 2..(x - 1) : x % f # 0

\* 2 to the power b
RECURSIVE Pow2(_)
Pow2(b) == IF b = 0 THEN 1 ELSE 2 * Pow2(b - 1)

\* generate_random_prime(b): any prime of bit length b
generate_random_prime(b) == {x \in Pow2(b - 1)..(Pow2(b) - 1) : IsPrime(x)}

\* blocks_from_text(text, length): the text cut into blocks of length
\* characters, each block the number whose digits in base 95 are the
\* characters' places in the alphabet; the texts of the model are made of
\* whole blocks
RECURSIVE block_value(_)
block_value(chars) ==
    IF Len(chars) = 0 THEN 0
    ELSE block_value(SubSeq(chars, 1, Len(chars) - 1)) * alphabet_size
            + (chars[Len(chars)] - alphabet_start)

blocks_from_text(text, length) ==
    [i \in 1..(Len(text) \div length) |->
        block_value(SubSeq(text, (i - 1) * length + 1, i * length))]

\* the length characters of a block, the first digits zero when it is small
RECURSIVE block_text(_, _)
block_text(block, length) ==
    IF length = 0 THEN <<>>
    ELSE Append(block_text(block \div alphabet_size, length - 1),
                (block % alphabet_size) + alphabet_start)

RECURSIVE Flatten(_)
Flatten(ss) == IF Len(ss) = 0 THEN <<>> ELSE Head(ss) \o Flatten(Tail(ss))

\* text_from_blocks(blocks, length)
text_from_blocks(blocks, length) ==
    Flatten([i \in 1..Len(blocks) |-> block_text(blocks[i], length)])

(***************************************************************************)
(* Outcomes of encode and decode                                           *)
(***************************************************************************)
\* encode and decode return a string; a call that raises returns no string,
\* which is modelled by a sequence that is no string
NoInverse == <<-1>>

ZeroDivision == <<-2>>

IsError(s) == s = NoInverse \/ s = ZeroDivision

(***************************************************************************)
(* Caesar                                                                  *)
(***************************************************************************)
\* a slip: the start of the alphabet is not taken off before the modulo
Caesar_encode_char_keeps_start(k, char) ==
    ((char + k) % alphabet_size) + alphabet_start

\* Caesar.encode, one character
Caesar_encode_char(k, char) ==
    ((char + k - alphabet_start) % alphabet_size) + alphabet_start

Caesar_encode(k, m) ==
    [i \in 1..Len(m) |-> Caesar_encode_char(k, m[i])]

Caesar_decoding_key(k) == alphabet_size - k

Caesar_decode(k, m) == Caesar_encode(Caesar_decoding_key(k), m)

(***************************************************************************)
(* Multiplication                                                          *)
(***************************************************************************)
\* Multiplication.encode, one character
Multiplication_encode_char(k, char) ==
    ((char * k - alphabet_start) % alphabet_size) + alphabet_start

Multiplication_encode(k, m) ==
    [i \in 1..Len(m) |-> Multiplication_encode_char(k, m[i])]

\* a slip: the decoding key of Caesar, 95 - k, instead of the inverse
Multiplication_decode_negates(k, m) ==
    Multiplication_encode(alphabet_size - k, m)

Multiplication_decode(k, m) ==
    LET mod_inverse == modular_inverse(k, alphabet_size)
    IN  IF mod_inverse = NoInverseError THEN NoInverse
        ELSE Multiplication_encode(mod_inverse, m)

(***************************************************************************)
(* Affine                                                                  *)
(***************************************************************************)
\* k = <<multiplication key, caesar key>>
Affine_encode(k, m) ==
    Caesar_encode(k[2], Multiplication_encode(k[1], m))

\* a slip: the two steps undone in the order they were applied
Affine_decode_same_order(k, m) ==
    Caesar_decode(k[2], Multiplication_decode(k[1], m))

Affine_decode(k, m) ==
    Multiplication_decode(k[1], Caesar_decode(k[2], m))

(***************************************************************************)
(* Unbreakable                                                             *)
(***************************************************************************)
\* Unbreakable.encode, character i (0-based, as enumerate counts)
Unbreakable_encode_char(k, i, char) ==
    ((char + k[(i % Len(k)) + 1] - alphabet_start) % alphabet_size)
        + alphabet_start

\* i % len(k) raises ZeroDivisionError for an empty key, at the first
\* character; an empty message is encoded without reading the key
Unbreakable_encode(k, m) ==
    IF Len(k) = 0 /\ Len(m) > 0 THEN ZeroDivision
    ELSE [i \in 1..Len(m) |-> Unbreakable_encode_char(k, i - 1, m[i])]

\* a slip: the decoding key is the key read backwards
Unbreakable_decoding_key_reversed(k) ==
    [j \in 1..Len(k) |-> (alphabet_size - k[Len(k) + 1 - j]) % alphabet_size]

Unbreakable_decoding_key(k) ==
    [j \in 1..Len(k) |-> (alphabet_size - k[j]) % alphabet_size]

Unbreakable_decode(k, m) ==
    Unbreakable_encode(Unbreakable_decoding_key(k), m)

(***************************************************************************)
(* RSA                                                                     *)
(***************************************************************************)
\* (a * b) % m for 0 <= a, b < m < 2^23, computed in two halves of b so that
\* no product leaves the 32 bits of the model checker's integers (the
\* integers of the program have no width)
MulMod(a, b, m) == (((a * (b \div 256)) % m) * 256 + a * (b % 256)) % m

\* (base ** exp) % m
RECURSIVE ModExp(_, _, _)
ModExp(base, exp, m) ==
    IF exp = 0 THEN 1 % m
    ELSE LET half == ModExp(base, exp \div 2, m)
             sq == MulMod(half, half, m)
         IN  IF exp % 2 = 0 THEN sq ELSE MulMod(sq, base % m, m)

\* k = <<n, e>>
RSA_encode(k, m) ==
    LET blocks == blocks_from_text(m, block_length)
    IN  [i \in 1..Len(blocks) |-> ModExp(blocks[i], k[2], k[1])]

\* a slip: the two halves of the key read in the wrong order
RSA_decode_swapped(k, m) ==
    text_from_blocks([i \in 1..Len(m) |-> ModExp(m[i], k[1], k[2])],
                     block_length)

\* k = <<n, d>>
RSA_decode(k, m) ==
    text_from_blocks([i \in 1..Len(m) |-> ModExp(m[i], k[2], k[1])],
                     block_length)

\* RSA.verify, k = <<public key, private key>>
RSA_verify(k, m) == m = RSA_decode(k[2], RSA_encode(k[1], m))

(***************************************************************************)
(* The cipher interface, by the cipher chosen                              *)
(***************************************************************************)
encode(c, k, m) ==
    CASE c = "c" -> Caesar_encode(k, m)
      [] c = "m" -> Multiplication_encode(k, m)
      [] c = "a" -> Affine_encode(k, m)
      [] c = "u" -> Unbreakable_encode(k, m)

decode(c, k, m) ==
    CASE c = "c" -> Caesar_decode(k, m)
      [] c = "m" -> Multiplication_decode(k, m)
      [] c = "a" -> Affine_decode(k, m)
      [] c = "u" -> Unbreakable_decode(k, m)

\* Cipher.verify ends in the exception that encode or decode raises
verify_raises(c, k, m) ==
    \/ IsError(encode(c, k, m))
    \/ IsError(decode(c, k, encode(c, k, m)))

\* Cipher.verify, when it returns
verify(c, k, m) == m = decode(c, k, encode(c, k, m))

(***************************************************************************)
(* The session of test() with a classical cipher                           *)
(***************************************************************************)
\* random.randint(a, b): any integer of a..b, both ends included
randint(a, b) == a..b

\* the keywords typed at the prompt of Unbreakable.generate_key
Keywords == BoundedSeq(KeyChars, MaxKeyLen)

\* the messages typed at the prompt of test()
Msgs(c) ==
    CASE c \in {"c", "m"} ->
            BoundedSeq(Chars, MaxLen) \cup ScenarioMsgs \cup SingleCharMsgs
      [] c = "a" -> BoundedSeq(AffineChars, MaxLen)
      [] c = "u" -> BoundedSeq(Chars, MaxLen)

None == <<>>

\* no Hacker has been made
NoHacker ==
    /\ hacker_cipher = ""
    /\ encoded_msg = None
    /\ words = {}
    /\ most_likely_msg = None
    /\ max_count = 0
    /\ hacker_key = None
    /\ hacker_pc = ""
    /\ bf_key = 0
    /\ c_key = 0
    /\ m_key = 0
    /\ checked = <<>>
    /\ returned = None

\* no Sender and no Receiver has been made
NoPerson ==
    /\ person_role = ""
    /\ person_cipher = ""
    /\ person_key = <<>>
    /\ person_op = ""
    /\ person_arg = None
    /\ person_out = None

\* no Calculator has been made
NoCalculator ==
    /\ infix = <<>>
    /\ notation = <<>>
    /\ op_stack = <<>>
    /\ output_queue = <<>>
    /\ stack = <<>>
    /\ calc_pc = ""
    /\ result = 0

\* no session of test() has begun
NoSession ==
    /\ cipher = ""
    /\ pc = ""
    /\ draw = 0
    /\ key = None
    /\ msg = None
    /\ encrypted = None
    /\ decrypted = None
    /\ verified = FALSE

\* RSA.generate_key has not been called
NoRSA ==
    /\ rsa_p = 0
    /\ rsa_q = 0
    /\ rsa_n = 0
    /\ rsa_phi = 0
    /\ rsa_e = 0
    /\ rsa_d = 0

Init ==
    /\ NoPerson
    /\ NoCalculator
    /\ NoHacker
    /\ cipher \in {"c", "m", "a", "u"}
    /\ pc = "generate_key"
    /\ draw = 0
    /\ key = None
    /\ msg = None
    /\ encrypted = None
    /\ decrypted = None
    /\ verified = FALSE
    /\ rsa_p = 0
    /\ rsa_q = 0
    /\ rsa_n = 0
    /\ rsa_phi = 0
    /\ rsa_e = 0
    /\ rsa_d = 0

\* Caesar.generate_key
Caesar_generate_key ==
    /\ pc = "generate_key"
    /\ cipher = "c"
    /\ \E k \in randint(0, alphabet_size) : key' = k
    /\ pc' = "encrypt"
    /\ UNCHANGED <<person_vars, calc_vars, hacker_vars, rsa_vars, cipher, draw, msg, encrypted, decrypted, verified>>

\* Multiplication.generate_key, the first draw (also the first half of
\* Affine.generate_key)
Multiplication_first_draw ==
    /\ pc = "generate_key"
    /\ cipher \in {"m", "a"}
    /\ \E k \in randint(0, alphabet_size) : draw' = k
    /\ pc' = "m_loop"
    /\ UNCHANGED <<person_vars, calc_vars, hacker_vars, rsa_vars, cipher, key, msg, encrypted, decrypted, verified>>

\* a slip: only the key 0 is drawn again
Multiplication_key_rejected_zero_only(k) == k = 0

\* the condition of the while loop of Multiplication.generate_key
Multiplication_key_rejected(k) == extended_gcd(k, alphabet_size)[1] # 1

\* Multiplication.generate_key, one turn of the while loop
Multiplication_redraw ==
    /\ pc = "m_loop"
    /\ Multiplication_key_rejected(draw)
    /\ \E k \in randint(0, alphabet_size) : draw' = k
    /\ UNCHANGED <<person_vars, calc_vars, hacker_vars, rsa_vars, cipher, pc, key, msg, encrypted, decrypted, verified>>

\* Multiplication.generate_key returns; for Affine the Caesar half follows
Multiplication_return ==
    /\ pc = "m_loop"
    /\ ~Multiplication_key_rejected(draw)
    /\ IF cipher = "m"
          THEN key' = draw /\ pc' = "encrypt"
          ELSE key' = key /\ pc' = "a_caesar"
    /\ UNCHANGED <<person_vars, calc_vars, hacker_vars, rsa_vars, cipher, draw, msg, encrypted, decrypted, verified>>

\* Affine.generate_key, its second half: caesar.generate_key and the pair
Affine_generate_key ==
    /\ pc = "a_caesar"
    /\ \E k \in randint(0, alphabet_size) : key' = <<draw, k>>
    /\ pc' = "encrypt"
    /\ UNCHANGED <<person_vars, calc_vars, hacker_vars, rsa_vars, cipher, draw, msg, encrypted, decrypted, verified>>

\* Unbreakable.generate_key: the ordinals of the keyword typed
Unbreakable_generate_key ==
    /\ pc = "generate_key"
    /\ cipher = "u"
    /\ \E keyword \in Keywords :
          key' = [i \in 1..Len(keyword) |-> keyword[i]]
    /\ pc' = "encrypt"
    /\ UNCHANGED <<person_vars, calc_vars, hacker_vars, rsa_vars, cipher, draw, msg, encrypted, decrypted, verified>>

\* test(): the message is typed and the sender encodes it
Encrypt ==
    /\ pc = "encrypt"
    /\ \E m \in Msgs(cipher) :
          /\ msg' = m
          /\ encrypted' = encode(cipher, key, m)
    /\ pc' = IF IsError(encrypted') THEN "raised" ELSE "decrypt"
    /\ UNCHANGED <<person_vars, calc_vars, hacker_vars, rsa_vars, cipher, draw, key, decrypted, verified>>

\* test(): the receiver decodes
Decrypt ==
    /\ pc = "decrypt"
    /\ decrypted' = decode(cipher, key, encrypted)
    /\ pc' = IF IsError(decrypted') THEN "raised" ELSE "verify"
    /\ UNCHANGED <<person_vars, calc_vars, hacker_vars, rsa_vars, cipher, draw, key, msg, encrypted, verified>>

\* test(): cipher.verify(key, msg)
Verify ==
    /\ pc = "verify"
    /\ IF verify_raises(cipher, key, msg)
          THEN verified' = verified /\ pc' = "raised"
          ELSE verified' = verify(cipher, key, msg) /\ pc' = "done"
    /\ UNCHANGED <<person_vars, calc_vars, hacker_vars, rsa_vars, cipher, draw, key, msg, encrypted, decrypted>>

Next ==
    \/ Caesar_generate_key
    \/ Multiplication_first_draw
    \/ Multiplication_redraw
    \/ Multiplication_return
    \/ Affine_generate_key
    \/ Unbreakable_generate_key
    \/ Encrypt
    \/ Decrypt
    \/ Verify

Spec == Init /\ [][Next]_vars

(***************************************************************************)
(* The session of test() with RSA                                          *)
(***************************************************************************)
\* the exponents drawn: the ends of random.randint(3, phi - 1)
EDraws(ph) ==
    {x \in (3..(2 + MaxEDraw)) \cup ((ph - MaxEDraw)..(ph - 1)) :
        x \in randint(3, ph - 1)}

\* the messages typed: texts of whole blocks
RSAMsgs ==
    {t \in BoundedSeq(RSAChars, MaxBlocks * block_length) :
        Len(t) % block_length = 0}

InitRSA ==
    /\ NoPerson
    /\ NoCalculator
    /\ NoHacker
    /\ cipher = "r"
    /\ pc = "generate_key"
    /\ draw = 0
    /\ key = None
    /\ msg = None
    /\ encrypted = None
    /\ decrypted = None
    /\ verified = FALSE
    /\ rsa_p = 0
    /\ rsa_q = 0
    /\ rsa_n = 0
    /\ rsa_phi = 0
    /\ rsa_e = 0
    /\ rsa_d = 0

\* RSA.generate_key: p = generate_random_prime(self.bits)
RSA_draw_p ==
    /\ pc = "generate_key"
    /\ cipher = "r"
    /\ rsa_p' \in generate_random_prime(bits)
    /\ pc' = "rsa_q"
    /\ UNCHANGED <<person_vars, calc_vars, hacker_vars, cipher, draw, key, msg, encrypted, decrypted, verified,
                   rsa_q, rsa_n, rsa_phi, rsa_e, rsa_d>>

\* RSA.generate_key: q = generate_random_prime(self.bits)
RSA_draw_q ==
    /\ pc = "rsa_q"
    /\ rsa_q' \in generate_random_prime(bits)
    /\ pc' = "rsa_q_loop"
    /\ UNCHANGED <<person_vars, calc_vars, hacker_vars, cipher, draw, key, msg, encrypted, decrypted, verified,
                   rsa_p, rsa_n, rsa_phi, rsa_e, rsa_d>>

\* a slip: q is never drawn again
RSA_q_rejected_never(pp, qq) == FALSE

\* the condition of the first while loop of RSA.generate_key
RSA_q_rejected(pp, qq) == qq = pp

\* RSA.generate_key, one turn of the first while loop
RSA_redraw_q ==
    /\ pc = "rsa_q_loop"
    /\ RSA_q_rejected(rsa_p, rsa_q)
    /\ rsa_q' \in generate_random_prime(bits)
    /\ UNCHANGED <<person_vars, calc_vars, hacker_vars, cipher, pc, draw, key, msg, encrypted, decrypted, verified,
                   rsa_p, rsa_n, rsa_phi, rsa_e, rsa_d>>

\* RSA.generate_key: n, phi and the first draw of e
RSA_draw_e ==
    /\ pc = "rsa_q_loop"
    /\ ~RSA_q_rejected(rsa_p, rsa_q)
    /\ rsa_n' = rsa_p * rsa_q
    /\ rsa_phi' = (rsa_p - 1) * (rsa_q - 1)
    /\ rsa_e' \in EDraws(rsa_phi')
    /\ pc' = "rsa_e_loop"
    /\ UNCHANGED <<person_vars, calc_vars, hacker_vars, cipher, draw, key, msg, encrypted, decrypted, verified,
                   rsa_p, rsa_q, rsa_d>>

\* the condition of the second while loop of RSA.generate_key
RSA_e_rejected(ee, ph) == extended_gcd(ee, ph)[1] # 1

\* RSA.generate_key, one turn of the second while loop
RSA_redraw_e ==
    /\ pc = "rsa_e_loop"
    /\ RSA_e_rejected(rsa_e, rsa_phi)
    /\ rsa_e' \in EDraws(rsa_phi)
    /\ UNCHANGED <<person_vars, calc_vars, hacker_vars, cipher, pc, draw, key, msg, encrypted, decrypted, verified,
                   rsa_p, rsa_q, rsa_n, rsa_phi, rsa_d>>

\* RSA.generate_key: d and the pair of keys returned
RSA_return ==
    /\ pc = "rsa_e_loop"
    /\ ~RSA_e_rejected(rsa_e, rsa_phi)
    /\ rsa_d' = modular_inverse(rsa_e, rsa_phi)
    /\ key' = <<<<rsa_n, rsa_e>>, <<rsa_n, rsa_d'>>>>
    /\ pc' = "encrypt"
    /\ UNCHANGED <<person_vars, calc_vars, hacker_vars, cipher, draw, msg, encrypted, decrypted, verified,
                   rsa_p, rsa_q, rsa_n, rsa_phi, rsa_e>>

\* test(): the message is typed and the sender, who holds the public key,
\* encodes it
RSA_Encrypt ==
    /\ pc = "encrypt"
    /\ cipher = "r"
    /\ \E m \in RSAMsgs :
          /\ msg' = m
          /\ encrypted' = RSA_encode(key[1], m)
    /\ pc' = "decrypt"
    /\ UNCHANGED <<person_vars, calc_vars, hacker_vars, cipher, draw, key, decrypted, verified, rsa_vars>>

\* test(): the receiver, who holds the private key, decodes
RSA_Decrypt ==
    /\ pc = "decrypt"
    /\ cipher = "r"
    /\ decrypted' = RSA_decode(key[2], encrypted)
    /\ pc' = "verify"
    /\ UNCHANGED <<person_vars, calc_vars, hacker_vars, cipher, draw, key, msg, encrypted, verified, rsa_vars>>

\* test(): cipher.verify(key, msg)
RSA_Verify ==
    /\ pc = "verify"
    /\ cipher = "r"
    /\ verified' = RSA_verify(key, msg)
    /\ pc' = "done"
    /\ UNCHANGED <<person_vars, calc_vars, hacker_vars, cipher, draw, key, msg, encrypted, decrypted, rsa_vars>>

NextRSA ==
    \/ RSA_draw_p
    \/ RSA_draw_q
    \/ RSA_redraw_q
    \/ RSA_draw_e
    \/ RSA_redraw_e
    \/ RSA_return
    \/ RSA_Encrypt
    \/ RSA_Decrypt
    \/ RSA_Verify

SpecRSA == InitRSA /\ [][NextRSA]_vars

(***************************************************************************)
(* Hacker                                                                  *)
(***************************************************************************)
\* a character of the class [0-9a-zA-Z]
IsAlnum(char) == char \in (48..57) \cup (65..90) \cup (97..122)

\* re.sub("[^0-9a-zA-Z]+", " ", text): every longest run of other
\* characters becomes one space
RECURSIVE re_sub(_)
re_sub(text) ==
    IF Len(text) = 0 THEN <<>>
    ELSE IF IsAlnum(Head(text)) THEN <<Head(text)>> \o re_sub(Tail(text))
    ELSE IF Len(text) > 1 /\ ~IsAlnum(text[2]) THEN re_sub(Tail(text))
    ELSE <<32>> \o re_sub(Tail(text))

\* text.split(), for a text whose only white space is the space: cur is the
\* word being read
RECURSIVE split(_, _)
split(text, cur) ==
    IF Len(text) = 0 THEN (IF Len(cur) = 0 THEN <<>> ELSE <<cur>>)
    ELSE IF Head(text) = 32
         THEN (IF Len(cur) = 0 THEN <<>> ELSE <<cur>>) \o split(Tail(text), <<>>)
         ELSE split(Tail(text), Append(cur, Head(text)))

\* word.lower()
lower(word) ==
    [i \in 1..Len(word) |->
        IF word[i] \in 65..90 THEN word[i] + 32 ELSE word[i]]

\* Hacker.count_english_words
count_english_words(ws, decoded_msg) ==
    LET decoded_msg_list == split(re_sub(decoded_msg), <<>>)
    IN  Cardinality({i \in 1..Len(decoded_msg_list) :
                        lower(decoded_msg_list[i]) \in ws})

\* the ciphertexts a Hacker is made with
HackMsgs(c) ==
    IF c = "a" THEN BoundedSeq(AffineHackChars, MaxAffineHackLen)
    ELSE BoundedSeq(HackChars, MaxHackLen)

\* the word lists a Hacker is made with
HackCorpora(c) == IF c = "a" THEN Corpora \ {{<<>>}} ELSE Corpora

\* Hacker.__init__, for the session of no one
InitHacker ==
    /\ NoPerson
    /\ NoCalculator
    /\ cipher = ""
    /\ pc = ""
    /\ draw = 0
    /\ key = None
    /\ msg = None
    /\ encrypted = None
    /\ decrypted = None
    /\ verified = FALSE
    /\ rsa_p = 0
    /\ rsa_q = 0
    /\ rsa_n = 0
    /\ rsa_phi = 0
    /\ rsa_e = 0
    /\ rsa_d = 0
    /\ hacker_cipher \in {"c", "m", "a"}
    /\ encoded_msg \in HackMsgs(hacker_cipher)
    /\ words \in HackCorpora(hacker_cipher)
    /\ most_likely_msg = <<>>
    /\ max_count = 0
    /\ hacker_key = None
    /\ hacker_pc = "brute_force"
    /\ bf_key = 0
    /\ c_key = 0
    /\ m_key = 0
    /\ checked = <<>>
    /\ returned = None

\* a slip: a candidate that only equals the best count replaces the best
improves_or_equals(count, best) == count >= best

\* Hacker.check_key: the comparison that keeps a candidate
improves(count, best) == count > best

\* Hacker.check_key(k)
check_key(k) ==
    LET decoded_msg == decode(hacker_cipher, k, encoded_msg)
        count == count_english_words(words, decoded_msg)
    IN  /\ hacker_key' = k
        /\ checked' = Append(checked, k)
        /\ IF improves(count, max_count)
              THEN max_count' = count /\ most_likely_msg' = decoded_msg
              ELSE UNCHANGED <<max_count, most_likely_msg>>

\* a slip: the keys that are not coprime are left out for every cipher
skips_without_isinstance(c, k) == extended_gcd(k, alphabet_size)[1] # 1

\* Hacker.brute_force, the first loop: the keys it passes over
skips(c, k) == c = "m" /\ extended_gcd(k, alphabet_size)[1] # 1

\* Hacker.brute_force, Caesar or Multiplication: a key is passed over
BruteForce_continue ==
    /\ hacker_pc = "brute_force"
    /\ hacker_cipher \in {"c", "m"}
    /\ bf_key < alphabet_size
    /\ skips(hacker_cipher, bf_key)
    /\ bf_key' = bf_key + 1
    /\ UNCHANGED <<person_vars, calc_vars, session_vars, rsa_vars, hacker_cipher, encoded_msg, words,
                   most_likely_msg, max_count, hacker_key, hacker_pc, c_key,
                   m_key, checked, returned>>

\* Hacker.brute_force, Caesar or Multiplication: a key is checked
BruteForce_check_key ==
    /\ hacker_pc = "brute_force"
    /\ hacker_cipher \in {"c", "m"}
    /\ bf_key < alphabet_size
    /\ ~skips(hacker_cipher, bf_key)
    /\ check_key(bf_key)
    /\ bf_key' = bf_key + 1
    /\ UNCHANGED <<person_vars, calc_vars, session_vars, rsa_vars, hacker_cipher, encoded_msg, words,
                   hacker_pc, c_key, m_key, returned>>

\* Hacker.brute_force, Caesar or Multiplication: the loop is over
BruteForce_return ==
    /\ hacker_pc = "brute_force"
    /\ hacker_cipher \in {"c", "m"}
    /\ bf_key = alphabet_size
    /\ returned' = <<most_likely_msg, max_count>>
    /\ hacker_pc' = "returned"
    /\ UNCHANGED <<person_vars, calc_vars, session_vars, rsa_vars, hacker_cipher, encoded_msg, words,
                   most_likely_msg, max_count, hacker_key, bf_key, c_key,
                   m_key, checked>>

\* the step of the two loops of the Affine search: m_key runs inside c_key
AffineStep ==
    IF m_key + 1 < alphabet_size
    THEN m_key' = m_key + 1 /\ c_key' = c_key
    ELSE m_key' = 0 /\ c_key' = c_key + 1

\* Hacker.brute_force, Affine: a multiplication key is passed over
BruteForce_affine_continue ==
    /\ hacker_pc = "brute_force"
    /\ hacker_cipher = "a"
    /\ c_key < alphabet_size
    /\ extended_gcd(m_key, alphabet_size)[1] # 1
    /\ AffineStep
    /\ UNCHANGED <<person_vars, calc_vars, session_vars, rsa_vars, hacker_cipher, encoded_msg, words,
                   most_likely_msg, max_count, hacker_key, hacker_pc, bf_key,
                   checked, returned>>

\* Hacker.brute_force, Affine: a pair is checked
BruteForce_affine_check_key ==
    /\ hacker_pc = "brute_force"
    /\ hacker_cipher = "a"
    /\ c_key < alphabet_size
    /\ extended_gcd(m_key, alphabet_size)[1] = 1
    /\ check_key(<<m_key, c_key>>)
    /\ AffineStep
    /\ UNCHANGED <<person_vars, calc_vars, session_vars, rsa_vars, hacker_cipher, encoded_msg, words,
                   hacker_pc, bf_key, returned>>

\* Hacker.brute_force, Affine: both loops are over
BruteForce_affine_return ==
    /\ hacker_pc = "brute_force"
    /\ hacker_cipher = "a"
    /\ c_key = alphabet_size
    /\ returned' = <<most_likely_msg, max_count>>
    /\ hacker_pc' = "returned"
    /\ UNCHANGED <<person_vars, calc_vars, session_vars, rsa_vars, hacker_cipher, encoded_msg, words,
                   most_likely_msg, max_count, hacker_key, bf_key, c_key,
                   m_key, checked>>

NextHacker ==
    \/ BruteForce_continue
    \/ BruteForce_check_key
    \/ BruteForce_return
    \/ BruteForce_affine_continue
    \/ BruteForce_affine_check_key
    \/ BruteForce_affine_return

SpecHacker == InitHacker /\ [][NextHacker]_vars

(***************************************************************************)
(* generate_key of Multiplication and RSA, run to its end                  *)
(***************************************************************************)
\* generate_key is entered; no key is assigned yet (for Multiplication, whose
\* keys are integers, 0 stands for the key not yet assigned)
InitKeyGen ==
    /\ NoPerson
    /\ NoCalculator
    /\ NoHacker
    /\ NoRSA
    /\ cipher \in {"m", "r"}
    /\ pc = "generate_key"
    /\ draw = 0
    /\ key = IF cipher = "m" THEN 0 ELSE None
    /\ msg = None
    /\ encrypted = None
    /\ decrypted = None
    /\ verified = FALSE

NextKeyGen ==
    \/ Multiplication_first_draw
    \/ Multiplication_redraw
    \/ Multiplication_return
    \/ RSA_draw_p
    \/ RSA_draw_q
    \/ RSA_redraw_q
    \/ RSA_draw_e
    \/ RSA_redraw_e
    \/ RSA_return

\* the position in generate_key and the values its loops draw
keygen_vars == <<pc, draw, rsa_p, rsa_q, rsa_e>>

\* the program keeps running: a step of generate_key that can be taken is
\* taken; nothing is assumed of the values the random draws give
SpecKeyGen ==
    InitKeyGen /\ [][NextKeyGen]_vars /\ WF_keygen_vars(NextKeyGen)

(***************************************************************************)
(* Hacker.brute_force on an Unbreakable ciphertext                         *)
(***************************************************************************)
\* the words of self.words the for loop has not reached; a set is iterated in
\* no order the program chooses
words_left == {word \in words : \A i \in 1..Len(checked) : checked[i] # word}

\* encryption_key: the ordinals of the word
encryption_key(word) == [i \in 1..Len(word) |-> word[i]]

\* a slip: no exception of check_key is caught
catches_nothing(err) == FALSE

\* brute_force, the except clause: ZeroDivisionError is caught
catches(err) == err = ZeroDivision

InitKeywordHacker ==
    /\ NoSession
    /\ NoRSA
    /\ NoPerson
    /\ NoCalculator
    /\ hacker_cipher = "u"
    /\ encoded_msg \in BoundedSeq(HackChars, MaxHackLen)
    /\ words \in Corpora
    /\ most_likely_msg = <<>>
    /\ max_count = 0
    /\ hacker_key = None
    /\ hacker_pc = "brute_force"
    /\ bf_key = 0
    /\ c_key = 0
    /\ m_key = 0
    /\ checked = <<>>
    /\ returned = <<>>

\* brute_force, Unbreakable: check_key is called with the key of a word and
\* returns
Keyword_check_key ==
    /\ hacker_pc = "brute_force"
    /\ hacker_cipher = "u"
    /\ \E word \in words_left :
          /\ ~IsError(decode("u", encryption_key(word), encoded_msg))
          /\ check_key(encryption_key(word))
    /\ UNCHANGED <<person_vars, calc_vars, session_vars, rsa_vars,
                   hacker_cipher, encoded_msg, words, hacker_pc, bf_key,
                   c_key, m_key, returned>>

\* brute_force, Unbreakable: check_key sets self.key and the decoding raises;
\* the loop goes on when the exception is caught, and brute_force ends in
\* the exception when it is not
Keyword_continue ==
    /\ hacker_pc = "brute_force"
    /\ hacker_cipher = "u"
    /\ \E word \in words_left :
          LET err == decode("u", encryption_key(word), encoded_msg)
          IN  /\ IsError(err)
              /\ hacker_key' = encryption_key(word)
              /\ checked' = Append(checked, encryption_key(word))
              /\ hacker_pc' = IF catches(err) THEN hacker_pc ELSE "raised"
    /\ UNCHANGED <<person_vars, calc_vars, session_vars, rsa_vars,
                   hacker_cipher, encoded_msg, words, most_likely_msg,
                   max_count, bf_key, c_key, m_key, returned>>

\* brute_force, Unbreakable: the loop is over
Keyword_return ==
    /\ hacker_pc = "brute_force"
    /\ hacker_cipher = "u"
    /\ words_left = {}
    /\ returned' = <<most_likely_msg, max_count>>
    /\ hacker_pc' = "returned"
    /\ UNCHANGED <<person_vars, calc_vars, session_vars, rsa_vars,
                   hacker_cipher, encoded_msg, words, most_likely_msg,
                   max_count, hacker_key, bf_key, c_key, m_key, checked>>

NextKeywordHacker ==
    \/ Keyword_check_key
    \/ Keyword_continue
    \/ Keyword_return

SpecKeywordHacker == InitKeywordHacker /\ [][NextKeywordHacker]_vars

(***************************************************************************)
(* Calls of encode, decode and verify with any key                         *)
(***************************************************************************)
\* the keys a caller passes, valid or not: every integer of 0..95 for Caesar
\* and Multiplication, pairs with a first half coprime with 95 or not for
\* Affine, every keyword, the empty one too, for Unbreakable
AnyKeys(c) ==
    CASE c \in {"c", "m"} -> 0..alphabet_size
      [] c = "a" -> {0, 1, 2, 5, 19, 94, 95} \X {0, 3, 95}
      [] c = "u" -> Keywords

InitCall ==
    /\ NoPerson
    /\ NoCalculator
    /\ NoHacker
    /\ NoRSA
    /\ cipher \in {"c", "m", "a", "u"}
    /\ pc = "call"
    /\ draw = 0
    /\ key \in AnyKeys(cipher)
    /\ msg \in BoundedSeq(Chars, MaxLen)
    /\ encrypted = None
    /\ decrypted = None
    /\ verified = FALSE

\* cipher.encode(key, msg) is called
Call_encode ==
    /\ pc = "call"
    /\ encrypted' = encode(cipher, key, msg)
    /\ pc' = IF IsError(encrypted') THEN "encode_raised" ELSE "encode_returned"
    /\ UNCHANGED <<cipher, draw, key, msg, decrypted, verified, rsa_vars,
                   hacker_vars, person_vars, calc_vars>>

\* cipher.decode(key, msg) is called
Call_decode ==
    /\ pc = "call"
    /\ decrypted' = decode(cipher, key, msg)
    /\ pc' = IF IsError(decrypted') THEN "decode_raised" ELSE "decode_returned"
    /\ UNCHANGED <<cipher, draw, key, msg, encrypted, verified, rsa_vars,
                   hacker_vars, person_vars, calc_vars>>

\* cipher.verify(key, msg) is called
Call_verify ==
    /\ pc = "call"
    /\ IF verify_raises(cipher, key, msg)
          THEN verified' = verified /\ pc' = "verify_raised"
          ELSE verified' = verify(cipher, key, msg) /\ pc' = "verify_returned"
    /\ UNCHANGED <<cipher, draw, key, msg, encrypted, decrypted, rsa_vars,
                   hacker_vars, person_vars, calc_vars>>

NextCall ==
    \/ Call_encode
    \/ Call_decode
    \/ Call_verify

SpecCall == InitCall /\ [][NextCall]_vars

(***************************************************************************)
(* Person, Sender and Receiver                                             *)
(***************************************************************************)
\* the outcome of arithmetic or indexing on the key None
TypeError == <<-3>>

\* encode or decode called with the key None: only an encode whose loop over
\* the message never runs returns (Affine indexes the key, the decode methods
\* compute with it, before any loop)
call_with_None(role, c, m) ==
    IF role = "Sender" /\ c \in {"c", "m", "u"} /\ m = <<>>
    THEN <<>>
    ELSE TypeError

\* a slip: the Receiver encodes as the Sender does
operate_cipher_always_encodes(role, c, k, m) ==
    IF k = None THEN call_with_None(role, c, m)
    ELSE encode(c, k[1], m)

\* Sender.operate_cipher / Receiver.operate_cipher; k is the held key, None
\* or the one-element sequence of the key set
operate_cipher(role, c, k, m) ==
    IF k = None THEN call_with_None(role, c, m)
    ELSE IF role = "Sender" THEN encode(c, k[1], m)
    ELSE decode(c, k[1], m)

InitPerson ==
    /\ NoSession
    /\ NoRSA
    /\ NoHacker
    /\ NoCalculator
    /\ person_role \in {"Sender", "Receiver"}
    /\ person_cipher \in {"c", "m", "a", "u"}
    /\ person_key = None
    /\ person_op = "__init__"
    /\ person_arg = None
    /\ person_out = None

\* Person.set_key
Person_set_key ==
    /\ person_role # ""
    /\ \E k \in AnyKeys(person_cipher) : person_key' = <<k>>
    /\ person_op' = "set_key"
    /\ person_arg' = None
    /\ person_out' = None
    /\ UNCHANGED <<person_role, person_cipher, session_vars, rsa_vars,
                   hacker_vars, calc_vars>>

\* Sender.operate_cipher / Receiver.operate_cipher
Person_operate_cipher ==
    /\ person_role # ""
    /\ \E m \in BoundedSeq(Chars, MaxLen) :
          /\ person_arg' = m
          /\ person_out' =
                operate_cipher(person_role, person_cipher, person_key, m)
    /\ person_op' = "operate_cipher"
    /\ UNCHANGED <<person_role, person_cipher, person_key, session_vars,
                   rsa_vars, hacker_vars, calc_vars>>

NextPerson ==
    \/ Person_set_key
    \/ Person_operate_cipher

SpecPerson == InitPerson /\ [][NextPerson]_vars

(***************************************************************************)
(* Calculator                                                              *)
(***************************************************************************)
\* the longest token sequence handed to evaluate_notation
MaxTokens == 7

\* the integers of the token sequences
Nums == {1, 2, 3}

\* the items of a token queue: a number, an Operator of self.operators, '('
\* and ')'
Num(v) == [kind |-> "num", val |-> v, name |-> ""]

Op(nm) == [kind |-> "op", val |-> 0, name |-> nm]

LeftParen == [kind |-> "(", val |-> 0, name |-> ""]

RightParen == [kind |-> ")", val |-> 0, name |-> ""]

\* Calculator.__init__: the strength given to each Operator
strength(nm) ==
    CASE nm = "ADD" -> 0
      [] nm = "MULTIPLY" -> 1
      [] nm = "DIVIDE" -> 1
      [] nm = "SUBTRACT" -> 0

\* Operator.execute with numpy.add, numpy.multiply and numpy.subtract, on
\* integers far inside the 64 bits of numpy's integers
execute(nm, element1, element2) ==
    CASE nm = "ADD" -> element1 + element2
      [] nm = "MULTIPLY" -> element1 * element2
      [] nm = "SUBTRACT" -> element1 - element2

\* Stack: pop and peek work on the last item
Stack_peek(st) == st[Len(st)]

Stack_pop(st) == SubSeq(st, 1, Len(st) - 1)

\* the well-formed infix token sequences of n tokens, each paired with its
\* value under the standard reading: a factor is a number or an expression in
\* parentheses, a term is a product of factors read from the left, an
\* expression is a sum or difference of terms read from the left
RECURSIVE Expr(_), Term(_), Factor(_)
Factor(n) ==
    IF n = 1 THEN {<<(<<Num(v)>>), v>> : v \in Nums}
    ELSE IF n >= 3
         THEN {<<(<<LeftParen>> \o e[1] \o <<RightParen>>), e[2]>> :
                    e \in Expr(n - 2)}
         ELSE {}

Term(n) ==
    Factor(n) \cup
    UNION {{<<(t[1] \o <<Op("MULTIPLY")>> \o f[1]), t[2] * f[2]>> :
                t \in Term(i), f \in Factor(n - 1 - i)} : i \in 1..(n - 2)}

Expr(n) ==
    Term(n) \cup
    UNION {{<<(e[1] \o <<Op("ADD")>> \o t[1]), e[2] + t[2]>> :
                e \in Expr(i), t \in Term(n - 1 - i)} : i \in 1..(n - 2)}
    \cup
    UNION {{<<(e[1] \o <<Op("SUBTRACT")>> \o t[1]), e[2] - t[2]>> :
                e \in Expr(i), t \in Term(n - 1 - i)} : i \in 1..(n - 2)}

WellFormed == UNION {Expr(n) : n \in 1..MaxTokens}

\* evaluate_notation, item ')': the while loop moves the stack's items to the
\* output queue down to the '(' and the if pops the '('; peek on an empty
\* stack fails its assertion (third component FALSE)
RECURSIVE close_paren(_, _)
close_paren(st, q) ==
    IF st = <<>> THEN <<st, q, FALSE>>
    ELSE IF Stack_peek(st).kind = "(" THEN <<Stack_pop(st), q, TRUE>>
    ELSE close_paren(Stack_pop(st), Append(q, Stack_peek(st)))

\* a slip: an operator of equal strength stays on the stack as well
stays_below_or_equal(top, item) ==
    top.kind = "op" /\ strength(top.name) <= strength(item.name)

\* evaluate_notation, item an Operator: the operator on top of the stack
\* stays there when it is weaker than the item
stays_below(top, item) ==
    top.kind = "op" /\ strength(top.name) < strength(item.name)

\* evaluate_notation, item an Operator: the while loop moves items of the
\* stack to the output queue until the stack is empty, a '(' is on top, or a
\* weaker operator is on top
RECURSIVE pop_operators(_, _, _)
pop_operators(st, q, item) ==
    IF st = <<>> THEN <<st, q>>
    ELSE IF Stack_peek(st).kind = "(" THEN <<st, q>>
    ELSE IF stays_below(Stack_peek(st), item) THEN <<st, q>>
    ELSE pop_operators(Stack_pop(st), Append(q, Stack_peek(st)), item)

\* evaluate_notation: the last while loop empties the stack into the queue
RECURSIVE pop_all(_, _)
pop_all(st, q) ==
    IF st = <<>> THEN q
    ELSE pop_all(Stack_pop(st), Append(q, Stack_peek(st)))

\* a Calculator is made and evaluate_notation is called with a token queue
InitCalculator ==
    /\ NoSession
    /\ NoRSA
    /\ NoHacker
    /\ NoPerson
    /\ infix \in WellFormed
    /\ notation = infix[1]
    /\ op_stack = <<>>
    /\ output_queue = <<>>
    /\ stack = <<>>
    /\ calc_pc = "evaluate_notation"
    /\ result = 0

\* evaluate_notation: the item popped is a number
Notation_number ==
    /\ calc_pc = "evaluate_notation"
    /\ notation # <<>>
    /\ Head(notation).kind = "num"
    /\ notation' = Tail(notation)
    /\ output_queue' = Append(output_queue, Head(notation))
    /\ UNCHANGED <<infix, op_stack, stack, calc_pc, result, session_vars,
                   rsa_vars, hacker_vars, person_vars>>

\* evaluate_notation: the item popped is '('
Notation_left_paren ==
    /\ calc_pc = "evaluate_notation"
    /\ notation # <<>>
    /\ Head(notation).kind = "("
    /\ notation' = Tail(notation)
    /\ op_stack' = Append(op_stack, Head(notation))
    /\ UNCHANGED <<infix, output_queue, stack, calc_pc, result, session_vars,
                   rsa_vars, hacker_vars, person_vars>>

\* evaluate_notation: the item popped is ')'
Notation_right_paren ==
    /\ calc_pc = "evaluate_notation"
    /\ notation # <<>>
    /\ Head(notation).kind = ")"
    /\ notation' = Tail(notation)
    /\ LET r == close_paren(op_stack, output_queue)
       IN  /\ op_stack' = r[1]
           /\ output_queue' = r[2]
           /\ calc_pc' = IF r[3] THEN calc_pc ELSE "AssertionError"
    /\ UNCHANGED <<infix, stack, result, session_vars, rsa_vars, hacker_vars,
                   person_vars>>

\* evaluate_notation: the item popped is an Operator
Notation_operator ==
    /\ calc_pc = "evaluate_notation"
    /\ notation # <<>>
    /\ Head(notation).kind = "op"
    /\ notation' = Tail(notation)
    /\ LET r == pop_operators(op_stack, output_queue, Head(notation))
       IN  /\ op_stack' = Append(r[1], Head(notation))
           /\ output_queue' = r[2]
    /\ UNCHANGED <<infix, stack, calc_pc, result, session_vars, rsa_vars,
                   hacker_vars, person_vars>>

\* evaluate_notation: the queue is empty, the stack is emptied into the
\* output queue, which is returned and handed to evaluate_rpn
Notation_return ==
    /\ calc_pc = "evaluate_notation"
    /\ notation = <<>>
    /\ output_queue' = pop_all(op_stack, output_queue)
    /\ op_stack' = <<>>
    /\ calc_pc' = "evaluate_rpn"
    /\ UNCHANGED <<infix, notation, stack, result, session_vars, rsa_vars,
                   hacker_vars, person_vars>>

\* evaluate_rpn: the item popped is a number
Rpn_number ==
    /\ calc_pc = "evaluate_rpn"
    /\ output_queue # <<>>
    /\ Head(output_queue).kind = "num"
    /\ output_queue' = Tail(output_queue)
    /\ stack' = Append(stack, Head(output_queue).val)
    /\ UNCHANGED <<infix, notation, op_stack, calc_pc, result, session_vars,
                   rsa_vars, hacker_vars, person_vars>>

\* evaluate_rpn: the item popped is an Operator; it takes num_2, then num_1,
\* off the stack (pop on an empty stack fails its assertion)
Rpn_operator ==
    /\ calc_pc = "evaluate_rpn"
    /\ output_queue # <<>>
    /\ Head(output_queue).kind = "op"
    /\ output_queue' = Tail(output_queue)
    /\ IF Len(stack) < 2
       THEN stack' = <<>> /\ calc_pc' = "AssertionError"
       ELSE /\ stack' = Append(Stack_pop(Stack_pop(stack)),
                               execute(Head(output_queue).name,
                                       Stack_peek(Stack_pop(stack)),
                                       Stack_peek(stack)))
            /\ calc_pc' = calc_pc
    /\ UNCHANGED <<infix, notation, op_stack, result, session_vars, rsa_vars,
                   hacker_vars, person_vars>>

\* evaluate_rpn: the queue is empty and the top of the stack is returned
Rpn_return ==
    /\ calc_pc = "evaluate_rpn"
    /\ output_queue = <<>>
    /\ IF stack = <<>>
       THEN stack' = stack /\ result' = result /\ calc_pc' = "AssertionError"
       ELSE /\ result' = Stack_peek(stack)
            /\ stack' = Stack_pop(stack)
            /\ calc_pc' = "done"
    /\ UNCHANGED <<infix, notation, op_stack, output_queue, session_vars,
                   rsa_vars, hacker_vars, person_vars>>

NextCalculator ==
    \/ Notation_number
    \/ Notation_left_paren
    \/ Notation_right_paren
    \/ Notation_operator
    \/ Notation_return
    \/ Rpn_number
    \/ Rpn_operator
    \/ Rpn_return

SpecCalculator == InitCalculator /\ [][NextCalculator]_vars

(***************************************************************************)
(* Properties of the classical ciphers                                     *)
(***************************************************************************)
\* the session has encoded and decoded its message
Decoded == pc \in {"verify", "done"}

\* a and b have no common divisor but 1
Coprime(a, b) == \A f \in 2..b : ~(a % f = 0 /\ b % f = 0)

\* C1: with every key Caesar.generate_key returns and every message over the
\* alphabet, decoding the encoded message gives the message back, and verify
\* says so; with key 3, "abc" is encoded to "def"
C1_CaesarRoundTrip ==
    /\ (cipher = "c" /\ Decoded) => decrypted = msg
    /\ (cipher = "c" /\ pc = "done") => verified = TRUE
    /\ (cipher = "c" /\ Decoded /\ key = 3 /\ msg = <<97, 98, 99>>)
          => encrypted = <<100, 101, 102>>

C1_Witness ==
    /\ cipher = "c"
    /\ pc = "done"
    /\ key = 3
    /\ msg = <<97, 98, 99>>
    /\ encrypted = <<100, 101, 102>>
    /\ decrypted = <<97, 98, 99>>

\* C2: with every key of [0, 95) coprime with 95 and every message over the
\* alphabet, Multiplication.decode gives the message back, and it is the
\* encoding of the ciphertext with the inverse of the key modulo 95
C2_MultiplicationRoundTrip ==
    (cipher = "m" /\ Decoded) =>
        /\ decrypted = msg
        /\ \E inv \in 0..(alphabet_size - 1) :
              /\ (key * inv) % alphabet_size = 1
              /\ decrypted = Multiplication_encode(inv, encrypted)

C2_Witness ==
    /\ cipher = "m"
    /\ pc = "done"
    /\ key = 2
    /\ msg = <<65, 126>>
    /\ encrypted # msg
    /\ decrypted = msg
    /\ verified = TRUE

\* C3: Affine.encode is Multiplication.encode then Caesar.encode,
\* Affine.decode undoes the Caesar step and then the Multiplication step, and
\* decoding the encoded message gives the message back
C3_AffineRoundTrip ==
    (cipher = "a" /\ Decoded) =>
        /\ encrypted = Caesar_encode(key[2], Multiplication_encode(key[1], msg))
        /\ Caesar_decode(key[2], encrypted) = Multiplication_encode(key[1], msg)
        /\ decrypted = Multiplication_decode(key[1], Multiplication_encode(key[1], msg))
        /\ decrypted = msg

C3_Witness ==
    /\ cipher = "a"
    /\ pc = "done"
    /\ key = <<2, 95>>
    /\ msg = <<32, 126>>
    /\ encrypted # msg
    /\ decrypted = msg
    /\ verified = TRUE

\* C4: with a key of any length L >= 1, character i of the message is moved
\* by key[i mod L] modulo 95 by encode and by (95 - key[i mod L]) mod 95 by
\* decode, and decoding the encoded message gives the message back
C4_UnbreakableRoundTrip ==
    (cipher = "u" /\ Decoded /\ Len(key) >= 1) =>
        /\ Len(encrypted) = Len(msg)
        /\ \A i \in 1..Len(msg) :
              LET shift == key[((i - 1) % Len(key)) + 1]
                  back == (alphabet_size - shift) % alphabet_size
              IN  /\ encrypted[i] - alphabet_start =
                        (msg[i] - alphabet_start + shift) % alphabet_size
                  /\ decrypted[i] - alphabet_start =
                        (encrypted[i] - alphabet_start + back) % alphabet_size
        /\ decrypted = msg

C4_Witness ==
    /\ cipher = "u"
    /\ pc = "done"
    /\ key = <<200, 32>>
    /\ Len(msg) = 1
    /\ encrypted # msg
    /\ decrypted = msg

\* C7: the key Multiplication.generate_key returns, and the first half of the
\* pair Affine.generate_key returns, is in [0, 95) and coprime with 95
C7_MultiplicationKeyValid ==
    /\ (cipher = "m" /\ pc \notin {"generate_key", "m_loop"}) =>
          (key \in 0..(alphabet_size - 1) /\ Coprime(key, alphabet_size))
    /\ (cipher = "a" /\ pc \notin {"generate_key", "m_loop", "a_caesar"}) =>
          (key[1] \in 0..(alphabet_size - 1) /\ Coprime(key[1], alphabet_size))
    /\ (cipher = "a" /\ pc = "a_caesar") =>
          (draw \in 0..(alphabet_size - 1) /\ Coprime(draw, alphabet_size))

C7_Witness ==
    /\ cipher = "a"
    /\ pc = "encrypt"
    /\ key[1] = 94

\* C8: the key Caesar.generate_key returns, and the second half of the pair
\* Affine.generate_key returns, is an integer k with 0 <= k < 95
C8_ShiftKeyDomain ==
    /\ (cipher = "c" /\ pc # "generate_key") =>
          key \in 0..(alphabet_size - 1)
    /\ (cipher = "a" /\ pc \notin {"generate_key", "m_loop", "a_caesar"}) =>
          key[2] \in 0..(alphabet_size - 1)

(***************************************************************************)
(* Properties of RSA                                                       *)
(***************************************************************************)
\* RSA.generate_key has returned
RSAKeyed == cipher = "r" /\ pc \in {"encrypt", "decrypt", "verify", "done"}

\* C5: with every pair of keys RSA.generate_key returns, every block of the
\* message is less than n, encoding it with (n, e) and decoding the result
\* with (n, d) gives the block back, and so the message is restored
C5_RSABlockRoundTrip ==
    (cipher = "r" /\ pc \in {"verify", "done"}) =>
        LET blocks == blocks_from_text(msg, block_length)
        IN  /\ Len(encrypted) = Len(blocks)
            /\ \A i \in 1..Len(blocks) :
                  /\ blocks[i] < rsa_n
                  /\ encrypted[i] = ModExp(blocks[i], rsa_e, rsa_n)
                  /\ ModExp(encrypted[i], rsa_d, rsa_n) = blocks[i]
            /\ decrypted = msg
            /\ (pc = "done" => verified = TRUE)

C5_Witness ==
    /\ cipher = "r"
    /\ pc = "done"
    /\ msg = <<126, 126>>
    /\ rsa_p = 131
    /\ rsa_q = 137
    /\ rsa_e = rsa_phi - 1
    /\ encrypted # <<9024>>
    /\ decrypted = msg

\* C6: RSA.generate_key returns ((n, e), (n, d)) with n = p*q for two
\* different primes p and q, phi = (p-1)*(q-1), 3 <= e <= phi-1,
\* gcd(e, phi) = 1 and (e*d) mod phi = 1
C6_RSAKeyGeneration ==
    RSAKeyed =>
        /\ IsPrime(rsa_p) /\ IsPrime(rsa_q)
        /\ rsa_p # rsa_q
        /\ rsa_n = rsa_p * rsa_q
        /\ rsa_phi = (rsa_p - 1) * (rsa_q - 1)
        /\ 3 <= rsa_e /\ rsa_e <= rsa_phi - 1
        /\ \A f \in 2..(IF rsa_e <= rsa_phi - rsa_e THEN rsa_e
                        ELSE rsa_phi - rsa_e) :
              ~(rsa_e % f = 0 /\ rsa_phi % f = 0)
        /\ 0 <= rsa_d /\ rsa_d < rsa_phi
        /\ MulMod(rsa_e, rsa_d, rsa_phi) = 1
        /\ key = <<<<rsa_n, rsa_e>>, <<rsa_n, rsa_d>>>>
        /\ key[1][1] = key[2][1]

C6_Witness ==
    /\ cipher = "r"
    /\ pc = "encrypt"
    /\ rsa_p = 137
    /\ rsa_q = 131
    /\ rsa_e = 3
    /\ rsa_d = 11787
    /\ key = <<<<17947, 3>>, <<17947, 11787>>>>

(***************************************************************************)
(* Properties of the Hacker                                                *)
(***************************************************************************)
\* the keys of [0, 95) coprime with 95, in ascending order
RECURSIVE CoprimeKeysFrom(_)
CoprimeKeysFrom(k) ==
    IF k >= alphabet_size THEN <<>>
    ELSE (IF Coprime(k, alphabet_size) THEN <<k>> ELSE <<>>)
            \o CoprimeKeysFrom(k + 1)

CoprimeKeys == CoprimeKeysFrom(0)

\* the valid keys of a cipher family, in the order of the search
SearchOrder(c) ==
    CASE c = "c" -> [i \in 1..alphabet_size |-> i - 1]
      [] c = "m" -> CoprimeKeys
      [] c = "a" ->
            [i \in 1..(alphabet_size * Len(CoprimeKeys)) |->
                <<CoprimeKeys[((i - 1) % Len(CoprimeKeys)) + 1],
                  (i - 1) \div Len(CoprimeKeys)>>]

SearchOrderC == SearchOrder("c")

SearchOrderM == SearchOrder("m")

SearchOrderA == SearchOrder("a")

Order(c) ==
    CASE c = "c" -> SearchOrderC
      [] c = "m" -> SearchOrderM
      [] c = "a" -> SearchOrderA

\* the word count of the ciphertext decoded with key k
Score(k) ==
    count_english_words(words, decode(hacker_cipher, k, encoded_msg))

\* C9: as check_key is called again and again, max_count never decreases and
\* most_likely_msg changes only in a step in which max_count increases
C9_BestScoreMonotone ==
    [][/\ max_count' >= max_count
       /\ (most_likely_msg' # most_likely_msg => max_count' > max_count)]_vars

\* a key has just been checked that did not reach the best count, 2, and so
\* left the best text alone
C9_Witness ==
    /\ hacker_pc = "brute_force"
    /\ Len(checked) > 0
    /\ max_count = 2
    /\ Score(hacker_key) < max_count
    /\ most_likely_msg # decode(hacker_cipher, hacker_key, encoded_msg)

\* C10: when brute_force returns, check_key has been called exactly once
\* with every valid key of the family, in the order of the search; the count
\* returned is the highest word count of those keys and the text returned is
\* the ciphertext decoded with the first key that reaches it, or the empty
\* text with the count 0 when no key counts above zero
C10_FirstMaximum ==
    hacker_pc = "returned" =>
        LET order == Order(hacker_cipher)
            scores == [i \in 1..Len(order) |-> Score(order[i])]
            best == CHOOSE i \in 1..Len(order) :
                        /\ \A j \in 1..Len(order) : scores[j] <= scores[i]
                        /\ \A j \in 1..(i - 1) : scores[j] < scores[i]
        IN  /\ checked = order
            /\ Cardinality({checked[i] : i \in 1..Len(checked)})
                  = Len(checked)
            /\ returned[2] = scores[best]
            /\ returned[1] =
                  IF scores[best] = 0 THEN <<>>
                  ELSE decode(hacker_cipher, order[best], encoded_msg)

\* a search that found its best text at a key after the first, which a later
\* key equals without replacing it
C10_Witness ==
    /\ hacker_pc = "returned"
    /\ hacker_cipher = "m"
    /\ returned[2] = 2
    /\ Score(1) < 2
    /\ \E i \in 1..Len(checked) :
          /\ Score(checked[i]) = 2
          /\ decode(hacker_cipher, checked[i], encoded_msg) # returned[1]

\* the keys of the search under which the ciphertext counts a word
PositiveKeys ==
    {i \in 1..Len(Order(hacker_cipher)) : Score(Order(hacker_cipher)[i]) > 0}

\* C11: when brute_force has finished on a Caesar ciphertext that counts a
\* word under one key only, the key the Hacker holds is that key, the key
\* that gave the text returned
C11_BestKeyRetained ==
    (hacker_pc = "returned" /\ hacker_cipher = "c"
        /\ Cardinality(PositiveKeys) = 1) =>
        \A i \in PositiveKeys :
            /\ returned[1] = decode("c", SearchOrderC[i], encoded_msg)
            /\ hacker_key = SearchOrderC[i]

(***************************************************************************)
(* Properties of calls with any key                                        *)
(***************************************************************************)
\* C12: verify, called with any key and any message, does not end in an
\* error: it returns the outcome of comparing the message with its encoding
\* decoded
C12_VerifyNeverRaises ==
    /\ pc # "verify_raised"
    /\ pc = "verify_returned" => verified \in BOOLEAN

\* the multiplication key of the call is not coprime with 95
MalformedKey ==
    \/ cipher = "m" /\ ~Coprime(key, alphabet_size)
    \/ cipher = "a" /\ ~Coprime(key[1], alphabet_size)

\* C13: Multiplication and Affine encode and decode, called with a
\* multiplication key that is not coprime with 95, end in an error and
\* return no text
C13_MalformedKeyRaises ==
    MalformedKey => pc \notin {"encode_returned", "decode_returned"}

(***************************************************************************)
(* Properties of Sender and Receiver                                       *)
(***************************************************************************)
\* C14: every call on a Sender or Receiver keeps its cipher; the held key
\* changes only in set_key; and operate_cipher, with a key set, keeps the key
\* and returns what encode (Sender) or decode (Receiver) gives for the held
\* key and the message
C14_RoleFrame ==
    [][/\ person_role' = person_role
       /\ person_cipher' = person_cipher
       /\ person_key' # person_key => person_op' = "set_key"
       /\ (person_op' = "operate_cipher" /\ person_key # None) =>
            /\ person_key' = person_key
            /\ person_role = "Sender" =>
                  person_out' = encode(person_cipher, person_key[1], person_arg')
            /\ person_role = "Receiver" =>
                  person_out' = decode(person_cipher, person_key[1], person_arg')
      ]_vars

\* a Receiver holding the Caesar key 3 has decoded "a" to "^"
C14_Witness ==
    /\ person_role = "Receiver"
    /\ person_cipher = "c"
    /\ person_key = <<3>>
    /\ person_op = "operate_cipher"
    /\ person_arg = <<97>>
    /\ person_out = <<94>>

(***************************************************************************)
(* Properties of the Calculator                                            *)
(***************************************************************************)
\* C15: for every well-formed infix token sequence over integers, ADD,
\* SUBTRACT, MULTIPLY and parentheses, evaluate_notation and evaluate_rpn fail
\* no assertion and the value evaluate_rpn returns is the value of the
\* expression under the standard reading; 1 add 2 multiply 3 gives 7
C15_InfixEvaluation ==
    /\ calc_pc # "AssertionError"
    /\ calc_pc = "done" => result = infix[2]
    /\ (calc_pc = "done"
            /\ infix[1] = <<Num(1), Op("ADD"), Num(2), Op("MULTIPLY"), Num(3)>>)
          => result = 7

\* 1 subtract 2 subtract 3 has been evaluated to -4, and nothing is left on
\* the queue or the stacks
C15_Witness ==
    /\ calc_pc = "done"
    /\ infix[1] = <<Num(1), Op("SUBTRACT"), Num(2), Op("SUBTRACT"), Num(3)>>
    /\ result = 0 - 4
    /\ output_queue = <<>>
    /\ op_stack = <<>>
    /\ stack = <<>>

(***************************************************************************)
(* Properties of the search on an Unbreakable ciphertext                   *)
(***************************************************************************)
\* the words whose key decodes the ciphertext without failing
DecodingWords ==
    {word \in words : ~IsError(decode("u", word, encoded_msg))}

\* the count of the ciphertext decoded with the key of a word
WordScore(word) == count_english_words(words, decode("u", word, encoded_msg))

\* brute_force on an Unbreakable ciphertext never ends in an error, and when
\* it has returned every word of the corpus was tried, once, and the pair
\* returned is the best count over the words that decode, with a text that
\* has this count (the empty text when no word counts)
KeywordSearchCompletes ==
    /\ hacker_pc # "raised"
    /\ hacker_pc = "returned" =>
          /\ Len(checked) = Cardinality(words)
          /\ \A word \in words : \E i \in 1..Len(checked) : checked[i] = word
          /\ \A word \in DecodingWords : WordScore(word) <= returned[2]
          /\ returned[2] = 0 => returned[1] = <<>>
          /\ returned[2] > 0 =>
                \E word \in DecodingWords :
                    /\ WordScore(word) = returned[2]
                    /\ returned[1] = decode("u", word, encoded_msg)

\* a step that tries a word whose key makes the decoding fail leaves
\* max_count and most_likely_msg as they were
FailingCandidateSkipped ==
    (/\ Len(checked') = Len(checked) + 1
     /\ IsError(decode("u", checked'[Len(checked')], encoded_msg)))
        => /\ max_count' = max_count
           /\ most_likely_msg' = most_likely_msg
           /\ hacker_pc' = "brute_force"

\* C16: in brute_force on an Unbreakable ciphertext a corpus word whose key
\* makes decoding fail is passed over with max_count and most_likely_msg
\* unchanged, every other word is still evaluated, and brute_force returns
\* the best (text, count) and never ends in an error
C16_KeywordSkipsFailing ==
    []KeywordSearchCompletes /\ [][FailingCandidateSkipped]_vars

\* brute_force has returned ("a", 1) for the ciphertext "c" although the
\* empty word of the corpus gave a key that failed
C16_Witness ==
    /\ hacker_cipher = "u"
    /\ hacker_pc = "returned"
    /\ encoded_msg = <<99>>
    /\ <<>> \in words
    /\ returned = <<(<<97>>), 1>>

(***************************************************************************)
(* Properties of Multiplication.encode and of the retry loops              *)
(***************************************************************************)
\* C17: with a key coprime with 95, Multiplication.encode maps the character
\* of ordinal o to the character of ordinal ((o - 32) * key) mod 95 + 32
C17_MultiplicationFormula ==
    (cipher = "m" /\ pc \in {"decrypt", "verify", "done"}) =>
        /\ Len(encrypted) = Len(msg)
        /\ \A i \in 1..Len(msg) :
              encrypted[i] =
                (((msg[i] - alphabet_start) * key) % alphabet_size)
                    + alphabet_start

\* C18: generate_key of Multiplication and of RSA ends on every sequence of
\* random draws, by returning a key or by an error
C18_KeyGenTerminates == <>(pc \in {"encrypt", "raised"})

====
